---- MODULE Spec2Model ----
(***************************************************************************)
(* Webhook-to-broker bridge: the single-account pipeline                   *)
(* (WebhookHandler.process_webhook), the multi-account pipeline            *)
(* (MultiAccountManager.process_webhook_for_account), the MT5Trader        *)
(* adapter, the HTTP routes in front of them and the administrative        *)
(* operations that change what the pipelines read.                         *)
(*                                                                         *)
(* A request is a small process: it walks through the handler's code one   *)
(* externally visible step at a time (a database commit, a broker call).   *)
(* Volumes are counted in thousandths of a lot (0.01 lot = 10).            *)
(***************************************************************************)
EXTENDS Integers, Sequences, FiniteSets, TLC

\* ------------------------------------------------------------------ bounds
MaxRequests == 2
\* read-only adapter calls made in succession
MaxReads == 3

\* ------------------------------------------------------- program constants
DefaultMaxDailyTrades == 10
DefaultLotSize == 10
DefaultMaxPositionSize == 1000
VolumeMin == 10
VolumeMax == 100000
VolumeStep == 10
PositionVolume == 100

\* ------------------------------------------------------------ input sets
\* the account ids of a one-account and of a two-account installation
OneAccount == {1}
TwoAccounts == {1, 2}
Symbols == {"EURUSD"}
\* the values an inbound payload carries under "action"
ActionInputs == {"BUY", "sell", "CLOSE", "HOLD"}
\* requested volumes: 150 lots (above the default position ceiling of a symbol
\* and above the volume_max of the terminal's symbols)
Volumes == {150000}
\* the API keys a caller of POST /webhook presents
ApiKeys == {"webhook-api-key", "wrong-key"}
\* routing keys: the one generated for each account, and one that was never issued
KeyOf(a) == IF a = 1 THEN "key-1" ELSE "key-2"
\* the server's worker threads; a server that handles one request at a time
\* uses the first only
Slots == {1, 2}
\* stored terminal credentials: none (demo mode), a numeric login, a non-numeric login
Creds == { [login |-> "", password |-> ""],
           [login |-> "12345678", password |-> "secret"],
           [login |-> "abc", password |-> "secret"] }
\* max_daily_trades values an operator enters
DailyLimits == {1}
\* order ids the terminal hands out
Tickets == {100000}

\* Python None in a numeric column / an absent ticket
NoneNum == 0 - 1
NoTicket == 0
\* account_id of an Alert that belongs to no account
NoAccountId == 0

\* ------------------------------------------------------------- messages
\* Every message is a record: a fixed text, the interpolated string and the
\* interpolated numbers of the f-string that builds it.
Msg(text, arg, n, m) == [text |-> text, arg |-> arg, n |-> n, m |-> m]
Text(text) == Msg(text, "", 0, 0)
TextArg(text, arg) == Msg(text, arg, 0, 0)
NoMsg == Text("")
\* f"<prefix>: {str(e)}" around an exception or an inner message
Wrap(prefix, inner) == [inner EXCEPT !.text = prefix \o ": " \o inner.text]
DbError == Text("database error")

\* ------------------------------------------------------------- payloads
\* A payload is a JSON object; keys is the set of names it carries.
Payload(keys, symbol, action, volume) ==
    [keys |-> keys, symbol |-> symbol, action |-> action, volume |-> volume]
Payloads ==
    { Payload(ks, IF "symbol" \in ks THEN s ELSE "",
                  IF "action" \in ks THEN a ELSE "",
                  IF "volume" \in ks THEN v ELSE NoneNum) :
        ks \in SUBSET {"symbol", "action", "volume"},
        s \in Symbols, a \in ActionInputs, v \in Volumes }
Has(data, field) == field \in data.keys
\* dict.get(field, default)
Get(data, field, default) == IF Has(data, field) THEN data[field] ELSE default
\* `if not data` of the routes: an empty JSON object is falsy
IsEmpty(data) == data.keys = {}

\* str.upper() on the action strings the model carries
Upper(s) ==
    CASE s = "sell" -> "SELL"
      [] s = "close" -> "CLOSE"
      [] s = "eurusd" -> "EURUSD"
      [] OTHER -> s
\* str.isdigit()-like test behind int(login)
IsNumeric(login) == login = "12345678"

\* ------------------------------------------------------------------ state
VARIABLES
    config,     \* the TradingConfig row (TradingConfig.query.first()), or NoRow
    symcfg,     \* the SymbolConfig row of each symbol, or NoRow
    accounts,   \* the TradingAccount row of each account id, or NoRow
    conns,      \* MultiAccountManager.active_connections: account id -> MT5Trader
    handler,    \* the routes' global WebhookHandler and its mt5_trader
    alerts,     \* the WebhookAlert table, in insertion order (id = position)
    execs,      \* the TradeExecution table, in insertion order
    calls,      \* the adapter calls and orders of the two entry points, in order
    reqs,       \* the webhook requests in progress, one per worker slot
    nreq,       \* number of webhook requests received so far
    faults,     \* whether db.session.commit() can raise in this behaviour
    serial,     \* whether requests are handled one at a time
    mode,       \* the installation: legacy single-account mode or multi-account mode
    submitted,  \* BUY/SELL orders process_webhook has had submitted since the
                \* later of the last midnight (UTC) and the last settings change
    view,       \* what the adapter's read-only calls returned, call after call,
                \* since it was last connected or disconnected (used where
                \* the adapter is exercised on its own)
    probe       \* the last call of a function exercised on its own: its
                \* arguments and what it returned

\* the ids of the installation's accounts
AccountIds == DOMAIN accounts
RoutingKeys == {KeyOf(a) : a \in AccountIds} \cup {"key-unknown"}

vars == <<config, symcfg, accounts, conns, handler, alerts, execs, calls,
          reqs, nreq, faults, serial, mode, submitted, view, probe>>

\* MT5Trader.__init__
NewTrader == [present |-> TRUE, is_connected |-> FALSE, current_login |-> "",
              current_server |-> "", account_info |-> ""]
NoTrader == [present |-> FALSE, is_connected |-> FALSE, current_login |-> "",
             current_server |-> "", account_info |-> ""]

NoConfig == [present |-> FALSE, api_key |-> "", is_active |-> FALSE,
             max_daily_trades |-> 0, creds |-> [login |-> "", password |-> ""],
             default_lot_size |-> 0]
\* TradingConfig() with the column defaults
DefaultConfig == [present |-> TRUE, api_key |-> "webhook-api-key", is_active |-> TRUE,
                  max_daily_trades |-> DefaultMaxDailyTrades,
                  creds |-> [login |-> "", password |-> ""],
                  default_lot_size |-> DefaultLotSize]

NoSymbolConfig == [present |-> FALSE, lot_size |-> 0, max_position_size |-> 0,
                   is_enabled |-> FALSE]

NoAccount == [present |-> FALSE, removed |-> FALSE, webhook_key |-> "",
              is_active |-> FALSE, creds |-> [login |-> "", password |-> ""],
              max_daily_trades |-> 0, default_lot_size |-> 0,
              total_trades |-> 0, successful_trades |-> 0, failed_trades |-> 0]

Counters(acc) == [total_trades |-> acc.total_trades,
                  successful_trades |-> acc.successful_trades,
                  failed_trades |-> acc.failed_trades]

\* a request: where it stands (pc), what it was sent and the handler's locals
\* (found: how many positions positions_get answered to close_position;
\* attempts: how often it has called _connect_mt5)
IdleReq == [pc |-> "idle", id |-> 0, path |-> "", key |-> "",
            data |-> Payload({}, "", "", NoneNum),
            parsed |-> Payload({}, "", "", NoneNum),
            alert |-> 0, acct |-> 0, volume |-> NoneNum,
            success |-> FALSE, ticket |-> NoTicket, message |-> NoMsg, http |-> 0,
            denied |-> FALSE, raised |-> FALSE, snap |-> Counters(NoAccount),
            found |-> NoneNum, attempts |-> 0]

\* no function has been called on its own
NoProbe == [op |-> "none"]

\* the state after construction, apart from the accounts table
InitService ==
    /\ config = NoConfig
    /\ symcfg = [s \in Symbols |-> NoSymbolConfig]
    /\ conns = [a \in AccountIds |-> NoTrader]
    /\ handler = NoTrader
    /\ alerts = <<>>
    /\ execs = <<>>
    /\ calls = <<>>
    /\ reqs = [s \in Slots |-> IdleReq]
    /\ nreq = 0
    /\ submitted = 0
    /\ view = <<>>
    /\ probe = NoProbe

InitCommon ==
    /\ accounts = [a \in OneAccount |-> NoAccount]
    /\ InitService
    /\ serial = TRUE
    /\ mode \in {"single", "multi"}

Init == InitCommon /\ faults = FALSE
InitFault == InitCommon /\ faults = TRUE

\* ------------------------------------------------------------ the terminal
\* What the terminal answers to initialize() and login(): the adapter handles
\* each answer; the bundled stand-in always answers "ok".
BrokerAnswers == {"ok", "init_failed", "login_failed"}
\* What order_send answers: TRADE_RETCODE_DONE with an order id, or a rejection.
OrderResults == {[done |-> TRUE, order |-> t] : t \in Tickets}
                    \cup {[done |-> FALSE, order |-> NoTicket]}
\* What positions_get(symbol) answers: the open positions, by type.
PositionLists == {<<>>, <<"BUY">>, <<"BUY", "SELL">>}

ConnectCall(id) == [op |-> "connect", req |-> id, type |-> "", volume |-> NoneNum]
TradeCall(id) == [op |-> "execute_trade", req |-> id, type |-> "", volume |-> NoneNum]
CloseCall(id) == [op |-> "close_position", req |-> id, type |-> "", volume |-> NoneNum]
OrderCall(id, type, volume) ==
    [op |-> "order_send", req |-> id, type |-> type, volume |-> volume]

\* ------------------------------------------------------------- MT5Trader
\* MT5Trader.connect: the adapter after the call, and the value returned.
Connect(trader, server, login, password, answer) ==
    IF server = "" \/ login = "" \/ password = ""
    THEN [trader |-> [trader EXCEPT !.is_connected = TRUE, !.current_login = "demo",
                                    !.current_server = "demo-server",
                                    !.account_info = "demo"],
          ok |-> TRUE]
    ELSE IF answer = "init_failed" THEN [trader |-> trader, ok |-> FALSE]
    ELSE IF ~IsNumeric(login) THEN [trader |-> trader, ok |-> FALSE]
    ELSE IF answer = "login_failed" THEN [trader |-> trader, ok |-> FALSE]
    ELSE [trader |-> [trader EXCEPT !.is_connected = TRUE, !.current_login = login,
                                    !.current_server = server, !.account_info = login],
          ok |-> TRUE]

\* MT5Trader.disconnect
Disconnect(trader) == [trader EXCEPT !.is_connected = FALSE]

\* what a read-only call gives back: the adapter afterwards, the value
\* returned and whether the terminal was asked
Read(op, trader, info, positions, asked) ==
    [op |-> op, trader |-> trader, info |-> info, positions |-> positions, asked |-> asked]
\* None, where get_account_info returns a dict or None
NoInfo == ""
\* what mt5.account_info() answers: an account (its login) or None
InfoAnswers == {"12345678", NoInfo}

\* get_account_info without the is_connected test
get_account_info_NoGuard(trader, answer) ==
    Read("get_account_info", trader, answer, <<>>, TRUE)

\* MT5Trader.get_account_info; answer: what mt5.account_info() returns
get_account_info(trader, answer) ==
    IF ~trader.is_connected
    THEN Read("get_account_info", trader, NoInfo, <<>>, FALSE)
    ELSE Read("get_account_info", trader, answer, <<>>, TRUE)

\* MT5Trader.get_positions; positions: what mt5.positions_get() returns
get_positions(trader, positions) ==
    IF ~trader.is_connected
    THEN Read("get_positions", trader, NoInfo, <<>>, FALSE)
    ELSE Read("get_positions", trader, NoInfo, positions, TRUE)

\* round(volume / volume_step) * volume_step, Python's round (half to even)
RoundToStep(volume) ==
    LET q == volume \div VolumeStep
        r == volume % VolumeStep
    IN  IF 2 * r > VolumeStep \/ (2 * r = VolumeStep /\ q % 2 = 1)
        THEN (q + 1) * VolumeStep
        ELSE q * VolumeStep

\* a volume validation that rounds to the step without clamping first
ClampVolume_RoundOnly(volume) == RoundToStep(volume)

\* the volume validation of MT5Trader.execute_trade
ClampVolume(volume) ==
    RoundToStep(IF volume < VolumeMin THEN VolumeMin
                ELSE IF volume > VolumeMax THEN VolumeMax
                ELSE volume)

\* execute_trade that sends a refused order once more
ExecuteTrade_Resend(trader, id, hasAction, action, volume, quoted, result) ==
    LET ret(ok, ticket, msg, sent) ==
            [success |-> ok, ticket |-> ticket, message |-> msg, orders |-> sent]
    IN  IF ~trader.is_connected THEN ret(FALSE, NoTicket, Text("Not connected to MT5"), <<>>)
        ELSE IF ~quoted
        THEN ret(FALSE, NoTicket, TextArg("Symbol not available", "symbol"), <<>>)
        ELSE IF ~hasAction
        THEN ret(FALSE, NoTicket,
                 Wrap("Trade execution error", Text("'NoneType' object has no attribute 'upper'")),
                 <<>>)
        ELSE IF Upper(action) \notin {"BUY", "SELL"}
        THEN ret(FALSE, NoTicket, TextArg("Invalid action", action), <<>>)
        ELSE LET sent == <<OrderCall(id, Upper(action), ClampVolume(volume))>>
             IN  IF ~result.done
                 THEN ret(FALSE, NoTicket, Text("Trade failed"), sent \o sent)
                 ELSE ret(TRUE, result.order, Text("Trade executed successfully"), sent)

\* MT5Trader.execute_trade. hasAction: the caller passed a string as action;
\* quoted: symbol_info knows the symbol; result: what order_send answers.
\* Gives the returned triple and the orders sent.
ExecuteTrade(trader, id, hasAction, action, volume, quoted, result) ==
    LET ret(ok, ticket, msg, sent) ==
            [success |-> ok, ticket |-> ticket, message |-> msg, orders |-> sent]
    IN  IF ~trader.is_connected THEN ret(FALSE, NoTicket, Text("Not connected to MT5"), <<>>)
        ELSE IF ~quoted
        THEN ret(FALSE, NoTicket, TextArg("Symbol not available", "symbol"), <<>>)
        ELSE IF ~hasAction
        THEN ret(FALSE, NoTicket,
                 Wrap("Trade execution error", Text("'NoneType' object has no attribute 'upper'")),
                 <<>>)
        ELSE IF Upper(action) \notin {"BUY", "SELL"}
        THEN ret(FALSE, NoTicket, TextArg("Invalid action", action), <<>>)
        ELSE LET sent == <<OrderCall(id, Upper(action), ClampVolume(volume))>>
             IN  IF ~result.done
                 THEN ret(FALSE, NoTicket, Text("Trade failed"), sent)
                 ELSE ret(TRUE, result.order, Text("Trade executed successfully"), sent)

Opposite(type) == IF type = "BUY" THEN "SELL" ELSE "BUY"
CountTrue(flags) == Cardinality({i \in DOMAIN flags : flags[i]})

\* f"Failed to close position {position.ticket}: {result.comment}"; the
\* ticket of the i-th position is written i
CloseError(i) == "Failed to close position " \o ToString(i) \o ": rejected"
\* the errors list of close_position: one message per refused order, from
\* position i on
RECURSIVE CloseErrors(_, _)
CloseErrors(accepted, i) ==
    IF i > Len(accepted) THEN <<>>
    ELSE (IF accepted[i] THEN <<>> ELSE <<CloseError(i)>>) \o CloseErrors(accepted, i + 1)
\* "; ".join(errors)
RECURSIVE JoinErrors(_)
JoinErrors(errors) ==
    IF errors = <<>> THEN ""
    ELSE IF Len(errors) = 1 THEN errors[1]
    ELSE errors[1] \o "; " \o JoinErrors(Tail(errors))

\* close_position that reports success when there is nothing to close
ClosePosition_EmptyOk(trader, id, symbol, volume, positions, accepted) ==
    LET ret(ok, msg, sent) == [success |-> ok, message |-> msg, orders |-> sent]
        close_volume == IF volume > 0 THEN volume ELSE PositionVolume
        sent == [i \in DOMAIN positions |->
                    OrderCall(id, Opposite(positions[i]), close_volume)]
        closed == CountTrue(accepted)
    IN  IF ~trader.is_connected THEN ret(FALSE, Text("Not connected to MT5"), <<>>)
        ELSE IF positions = <<>>
        THEN ret(TRUE, Msg("Closed positions", "", 0, 0), <<>>)
        ELSE IF closed > 0
        THEN ret(TRUE, Msg("Closed positions", "", closed, 0), sent)
        ELSE ret(FALSE, Text(JoinErrors(CloseErrors(accepted, 1))), sent)

\* close_position that succeeds only when every position was closed
ClosePosition_AllOrNothing(trader, id, symbol, volume, positions, accepted) ==
    LET ret(ok, msg, sent) == [success |-> ok, message |-> msg, orders |-> sent]
        close_volume == IF volume > 0 THEN volume ELSE PositionVolume
        sent == [i \in DOMAIN positions |->
                    OrderCall(id, Opposite(positions[i]), close_volume)]
        closed == CountTrue(accepted)
    IN  IF ~trader.is_connected THEN ret(FALSE, Text("Not connected to MT5"), <<>>)
        ELSE IF positions = <<>>
        THEN ret(FALSE, TextArg("No open positions for", symbol), <<>>)
        ELSE IF closed = Len(positions)
        THEN ret(TRUE, Msg("Closed positions", "", closed, 0), sent)
        ELSE ret(FALSE, Text(JoinErrors(CloseErrors(accepted, 1))), sent)

\* MT5Trader.close_position(symbol, volume): positions is what positions_get
\* answers, accepted[i] whether the closing order of position i is accepted;
\* a volume of None or 0 stands for the position's own volume.
ClosePosition(trader, id, symbol, volume, positions, accepted) ==
    LET ret(ok, msg, sent) == [success |-> ok, message |-> msg, orders |-> sent]
        close_volume == IF volume > 0 THEN volume ELSE PositionVolume
        sent == [i \in DOMAIN positions |->
                    OrderCall(id, Opposite(positions[i]), close_volume)]
        closed == CountTrue(accepted)
    IN  IF ~trader.is_connected THEN ret(FALSE, Text("Not connected to MT5"), <<>>)
        ELSE IF positions = <<>>
        THEN ret(FALSE, TextArg("No open positions for", symbol), <<>>)
        ELSE IF closed > 0
        THEN ret(TRUE, Msg("Closed positions", "", closed, 0), sent)
        ELSE ret(FALSE, Text(JoinErrors(CloseErrors(accepted, 1))), sent)

\* ---------------------------------------------------------- WebhookHandler
\* WebhookHandler._connect_mt5: the adapter afterwards and whether connect ran.
ConnectMt5(trader, cfg, answer) ==
    IF cfg.present /\ cfg.is_active
    THEN LET c == IF cfg.creds.login = "" \/ cfg.creds.password = ""
                  THEN Connect(trader, "", "", "", answer)
                  ELSE Connect(trader, "host:443", cfg.creds.login,
                               cfg.creds.password, answer)
         IN  [trader |-> c.trader, called |-> TRUE]
    ELSE [trader |-> trader, called |-> FALSE]

\* validate_api_key that lets every key pass while no TradingConfig row exists
validate_api_key_Lenient(cfg, provided_key) ==
    ~cfg.present \/ cfg.api_key = provided_key

\* a connection check that reconnects whether or not the adapter is connected
EnsureConnected_Eager(trader, cfg, answer) ==
    LET c == ConnectMt5(trader, cfg, answer)
    IN  [trader |-> c.trader, called |-> c.called, attempts |-> 1]

\* `if not self.mt5_trader.is_connected: self._connect_mt5()` of _execute_trade
\* and _close_positions: the adapter afterwards, whether connect ran and how
\* often _connect_mt5 was called
EnsureConnected(trader, cfg, answer) ==
    IF trader.is_connected
    THEN [trader |-> trader, called |-> FALSE, attempts |-> 0]
    ELSE LET c == ConnectMt5(trader, cfg, answer)
         IN  [trader |-> c.trader, called |-> c.called, attempts |-> 1]

\* WebhookHandler.validate_api_key
validate_api_key(cfg, provided_key) == cfg.present /\ cfg.api_key = provided_key

ValidActions == {"BUY", "SELL", "CLOSE"}

\* parse_webhook_data without the test against valid_actions
parse_webhook_data_AnyAction(data) ==
    LET bad(msg) == [ok |-> FALSE, parsed |-> Payload({}, "", "", NoneNum), message |-> msg]
    IN  IF ~Has(data, "symbol") THEN bad(TextArg("Missing required field", "symbol"))
        ELSE IF ~Has(data, "action") THEN bad(TextArg("Missing required field", "action"))
        ELSE [ok |-> TRUE, parsed |-> [data EXCEPT !.action = Upper(data.action)],
              message |-> Text("Success")]

\* WebhookHandler.parse_webhook_data
parse_webhook_data(data) ==
    LET bad(msg) == [ok |-> FALSE, parsed |-> Payload({}, "", "", NoneNum), message |-> msg]
    IN  IF ~Has(data, "symbol") THEN bad(TextArg("Missing required field", "symbol"))
        ELSE IF ~Has(data, "action") THEN bad(TextArg("Missing required field", "action"))
        ELSE IF Upper(data.action) \notin ValidActions
        THEN bad(TextArg("Invalid action", data.action))
        ELSE [ok |-> TRUE, parsed |-> [data EXCEPT !.action = Upper(data.action)],
              message |-> Text("Success")]

\* TradeExecution rows with executed_at >= the last midnight (UTC)
DailyTrades(rows) == Cardinality({i \in DOMAIN rows : rows[i].current})

\* check_risk_limits that compares the daily count with > instead of >=
check_risk_limits_OffByOne(cfg, sc, volume, daily_trades) ==
    IF ~cfg.present THEN [ok |-> FALSE, message |-> Text("No trading configuration found")]
    ELSE IF daily_trades > cfg.max_daily_trades
    THEN [ok |-> FALSE,
          message |-> Msg("Daily trade limit reached", "", daily_trades, cfg.max_daily_trades)]
    ELSE IF sc.present /\ ~sc.is_enabled
    THEN [ok |-> FALSE, message |-> TextArg("Trading disabled for symbol", "symbol")]
    ELSE IF sc.present /\ volume > sc.max_position_size
    THEN [ok |-> FALSE, message |-> Msg("Volume exceeds limit", "", volume, sc.max_position_size)]
    ELSE [ok |-> TRUE, message |-> Text("Risk checks passed")]

\* WebhookHandler.check_risk_limits
check_risk_limits(cfg, sc, volume, daily_trades) ==
    IF ~cfg.present THEN [ok |-> FALSE, message |-> Text("No trading configuration found")]
    ELSE IF daily_trades >= cfg.max_daily_trades
    THEN [ok |-> FALSE,
          message |-> Msg("Daily trade limit reached", "", daily_trades, cfg.max_daily_trades)]
    ELSE IF sc.present /\ ~sc.is_enabled
    THEN [ok |-> FALSE, message |-> TextArg("Trading disabled for symbol", "symbol")]
    ELSE IF sc.present /\ volume > sc.max_position_size
    THEN [ok |-> FALSE, message |-> Msg("Volume exceeds limit", "", volume, sc.max_position_size)]
    ELSE [ok |-> TRUE, message |-> Text("Risk checks passed")]

\* _execute_trade that computes the risk result and goes on regardless
TradeDecision_IgnoreRisk(cfg, sc, parsed, daily_trades) ==
    LET volume == IF sc.present THEN Get(parsed, "volume", sc.lot_size)
                  ELSE Get(parsed, "volume", cfg.default_lot_size)
    IN  IF parsed.action = "CLOSE"
        THEN [go |-> "close", volume |-> 0, denied |-> FALSE, message |-> NoMsg]
        ELSE IF ~cfg.present \/ ~cfg.is_active
        THEN [go |-> "fail", volume |-> NoneNum, denied |-> FALSE,
              message |-> Text("Trading configuration not active")]
        ELSE [go |-> "trade", volume |-> volume, denied |-> FALSE, message |-> NoMsg]

\* WebhookHandler._execute_trade up to the connection check: what the handler
\* decides before it touches the adapter.
TradeDecision(cfg, sc, parsed, daily_trades) ==
    LET volume == IF sc.present THEN Get(parsed, "volume", sc.lot_size)
                  ELSE Get(parsed, "volume", cfg.default_lot_size)
        risk == check_risk_limits(cfg, sc, volume, daily_trades)
    IN  IF parsed.action = "CLOSE"
        THEN [go |-> "close", volume |-> 0, denied |-> FALSE, message |-> NoMsg]
        ELSE IF ~cfg.present \/ ~cfg.is_active
        THEN [go |-> "fail", volume |-> NoneNum, denied |-> FALSE,
              message |-> Text("Trading configuration not active")]
        ELSE IF ~risk.ok
        THEN [go |-> "fail", volume |-> volume, denied |-> TRUE, message |-> risk.message]
        ELSE [go |-> "trade", volume |-> volume, denied |-> FALSE, message |-> NoMsg]

\* ------------------------------------------------------------ the requests
\* what db.session.commit() can do: return (TRUE) or raise (FALSE)
CommitOutcomes == IF faults THEN BOOLEAN ELSE {TRUE}

InFlight(req) == req.pc \notin {"idle", "done"}
Quiet == \A s \in Slots : ~InFlight(reqs[s])
\* administrative requests go through the same server as the webhooks
AdminTurn == serial => Quiet
\* the operator of a single-account installation works on the trading settings
\* and symbols, the operator of a multi-account installation on the accounts
SingleAdmin == AdminTurn /\ mode = "single"
MultiAdmin == AdminTurn /\ mode = "multi"

\* the status code the routes answer with: webhook and webhook_multi_account
HttpStatus(path, success) == IF success THEN 200 ELSE 400

\* the entry point returns (success, message, ticket) and the route answers
Return(req, success, ticket, message) ==
    [IdleReq EXCEPT !.pc = "done", !.id = req.id, !.path = req.path, !.alert = req.alert,
                    !.denied = req.denied, !.raised = req.raised,
                    !.success = success, !.ticket = ticket, !.message = message,
                    !.http = HttpStatus(req.path, success)]

\* the status a WebhookAlert row is inserted with
AlertInitialStatus == "RECEIVED"
\* the status the pipelines write once the trade was attempted
FinalStatus(success) == IF success THEN "PROCESSED" ELSE "FAILED"

NewAlert(id, account_id, symbol, action) ==
    [req |-> id, account_id |-> account_id, symbol |-> symbol, action |-> action,
     status |-> AlertInitialStatus, error_message |-> NoMsg]

\* a TradeExecution row built without its mt5_ticket
NewExecution_NoTicket(alert_id, ticket, action, volume, success, message) ==
    [alert |-> alert_id, ticket |-> NoTicket, action |-> action, volume |-> volume,
     status |-> IF success THEN "FILLED" ELSE "FAILED",
     error_message |-> IF success THEN NoMsg ELSE message, current |-> TRUE]

NewExecution(alert_id, ticket, action, volume, success, message) ==
    [alert |-> alert_id, ticket |-> ticket, action |-> action, volume |-> volume,
     status |-> IF success THEN "FILLED" ELSE "FAILED",
     error_message |-> IF success THEN NoMsg ELSE message, current |-> TRUE]

\* db.session.add(row) whose commit is forgotten: the row never reaches the table
Insert_Uncommitted(table, row, committed) == table

\* db.session.add(row); db.session.commit()
Insert(table, row, committed) == IF committed THEN Append(table, row) ELSE table

\* a status update without its filter on the alert id: it writes every row
UpdateAlert_EveryRow(table, alert_id, success, message) ==
    [i \in DOMAIN table |->
        [table[i] EXCEPT !.status = FinalStatus(success),
                         !.error_message = IF success THEN NoMsg ELSE message]]

\* the status update both pipelines commit at the end
UpdateAlert(table, alert_id, success, message) ==
    [table EXCEPT ![alert_id].status = FinalStatus(success),
                  ![alert_id].error_message = IF success THEN NoMsg ELSE message]

\* The rows of requests that have returned are kept with the columns an
\* operation of the service still reads or writes (the Alert's account and
\* status, the Execution's alert, status and age); their other columns are
\* only ever displayed, and are blanked so that the history stays finite.
Live(id) == \E t \in Slots : InFlight(reqs[t]) /\ reqs[t].id = id
ArchiveAlert(row) ==
    IF Live(row.req) THEN row
    ELSE [row EXCEPT !.symbol = "", !.action = "", !.error_message = NoMsg]
ArchiveExecution(row) ==
    IF Live(alerts[row.alert].req) THEN row
    ELSE [row EXCEPT !.ticket = NoTicket, !.action = "", !.volume = NoneNum,
                     !.error_message = NoMsg]

\* A webhook arrives at POST /webhook (with an API key) or at
\* POST /webhook/<webhook_key>. The call log keeps the requests in progress.
BeginWith(s, keys) ==
    /\ nreq < MaxRequests
    /\ ~InFlight(reqs[s])
    /\ serial => (Quiet /\ s = 1)
    /\ \E path \in {mode} :
         \E key \in keys :
            reqs' = [reqs EXCEPT ![s] = [IdleReq EXCEPT !.pc = "route", !.id = nreq + 1,
                                                       !.path = path, !.key = key]]
    /\ nreq' = nreq + 1
    /\ calls' = SelectSeq(calls, LAMBDA c : Live(c.req))
    /\ alerts' = [i \in DOMAIN alerts |-> ArchiveAlert(alerts[i])]
    /\ execs' = [i \in DOMAIN execs |-> ArchiveExecution(execs[i])]
    /\ UNCHANGED <<config, symcfg, accounts, conns, handler, faults, serial, mode, submitted, view, probe>>

Begin(s) == BeginWith(s, IF mode = "single" THEN ApiKeys ELSE RoutingKeys)

\* routes.webhook up to the call of process_webhook: the JSON check and
\* get_webhook_handler, which creates the handler and connects it on first use.
RouteWebhook(s) ==
    LET req == reqs[s] IN
    /\ req.pc = "route" /\ req.path = "single"
    /\ \E data \in Payloads :
       IF IsEmpty(data)
       THEN /\ reqs' = [reqs EXCEPT ![s] =
                          Return(req, FALSE, NoTicket, Text("No JSON data provided"))]
            /\ UNCHANGED handler
       ELSE /\ reqs' = [reqs EXCEPT ![s] = [req EXCEPT !.pc = "s_process", !.data = data]]
            /\ IF handler.present
               THEN UNCHANGED handler
               ELSE \E answer \in BrokerAnswers :
                       handler' = ConnectMt5(NewTrader, config, answer).trader
    /\ UNCHANGED calls
    /\ UNCHANGED <<config, symcfg, accounts, conns, alerts, execs, nreq, faults, serial, mode, submitted, view, probe>>

\* process_webhook, lines 141-164: the API key, the parser, the Alert row.
SProcess(s) ==
    LET req == reqs[s]
        p == parse_webhook_data(req.data)
    IN
    /\ req.pc = "s_process"
    /\ IF ~validate_api_key(config, req.key)
       THEN /\ reqs' = [reqs EXCEPT ![s] = Return(req, FALSE, NoTicket, Text("Invalid API key"))]
            /\ UNCHANGED alerts
       ELSE IF ~p.ok
       THEN /\ reqs' = [reqs EXCEPT ![s] = Return(req, FALSE, NoTicket, p.message)]
            /\ UNCHANGED alerts
       ELSE \E committed \in CommitOutcomes :
            /\ alerts' = Insert(alerts, NewAlert(req.id, NoAccountId, p.parsed.symbol, p.parsed.action),
                                committed)
            /\ reqs' = [reqs EXCEPT ![s] =
                          IF committed
                          THEN [req EXCEPT !.pc = "s_gate", !.parsed = p.parsed,
                                           !.alert = Len(alerts) + 1]
                          ELSE Return(req, FALSE, NoTicket,
                                      Wrap("Webhook processing error", DbError))]
    /\ UNCHANGED <<config, symcfg, accounts, conns, handler, execs, calls, nreq, faults, serial, mode, submitted, view, probe>>

\* _execute_trade / _close_positions up to the adapter call: configuration,
\* volume, risk limits and the lazy reconnect.
SGate(s) ==
    LET req == reqs[s]
        d == TradeDecision(config, symcfg[req.parsed.symbol], req.parsed,
                           DailyTrades(execs))
    IN
    /\ req.pc = "s_gate"
    /\ IF d.go = "fail"
       THEN /\ reqs' = [reqs EXCEPT ![s] = [req EXCEPT !.pc = "s_update", !.success = FALSE,
                                                      !.message = d.message,
                                                      !.denied = d.denied]]
            /\ UNCHANGED <<handler, calls>>
       ELSE \E answer \in BrokerAnswers :
            LET c == EnsureConnected(handler, config, answer)
            IN
            /\ handler' = c.trader
            /\ calls' = IF c.called THEN Append(calls, ConnectCall(req.id)) ELSE calls
            /\ reqs' = [reqs EXCEPT ![s] =
                          IF c.trader.is_connected
                          THEN [req EXCEPT !.pc = "s_trade", !.volume = d.volume,
                                           !.attempts = c.attempts]
                          ELSE [req EXCEPT !.pc = "s_update", !.success = FALSE,
                                           !.attempts = c.attempts,
                                           !.message = Text("MT5 not connected")]]
    /\ UNCHANGED <<config, symcfg, accounts, conns, alerts, execs, nreq, faults, serial, mode, submitted, view, probe>>

\* the adapter call of _execute_trade (execute_trade) or _close_positions
\* (close_position), with what the terminal answers.
STrade(s) ==
    LET req == reqs[s] IN
    /\ req.pc = "s_trade"
    /\ IF req.parsed.action = "CLOSE"
       THEN \E positions \in PositionLists :
            \E accepted \in [DOMAIN positions -> BOOLEAN] :
               LET t == ClosePosition(handler, req.id, req.parsed.symbol, NoneNum,
                                      positions, accepted) IN
               /\ calls' = Append(calls, CloseCall(req.id)) \o t.orders
               /\ submitted' = submitted
               /\ reqs' = [reqs EXCEPT ![s] = [req EXCEPT !.pc = "s_record",
                                                         !.found = Len(positions),
                                                         !.success = t.success,
                                                         !.ticket = NoTicket,
                                                         !.message = t.message]]
       ELSE \E quoted \in BOOLEAN, result \in OrderResults :
               LET t == ExecuteTrade(handler, req.id, TRUE, req.parsed.action,
                                     req.volume, quoted, result) IN
               /\ calls' = Append(calls, TradeCall(req.id)) \o t.orders
               /\ submitted' = submitted + Len(t.orders)
               /\ reqs' = [reqs EXCEPT ![s] = [req EXCEPT !.pc = "s_record",
                                                         !.success = t.success,
                                                         !.ticket = t.ticket,
                                                         !.message = t.message]]
    /\ UNCHANGED <<config, symcfg, accounts, conns, handler, alerts, execs, nreq, faults, serial, mode, view, probe>>

\* the TradeExecution row of _execute_trade / _close_positions; a commit that
\* raises is caught by the method's own except clause.
SRecord(s) ==
    LET req == reqs[s]
        closing == req.parsed.action = "CLOSE"
        row == NewExecution(req.alert, req.ticket, req.parsed.action,
                            IF closing THEN 0 ELSE req.volume,
                            req.success, req.message)
    IN
    /\ req.pc = "s_record"
    /\ \E committed \in CommitOutcomes :
         /\ execs' = Insert(execs, row, committed)
         /\ reqs' = [reqs EXCEPT ![s] =
                       IF committed
                       THEN [req EXCEPT !.pc = "s_update"]
                       ELSE [req EXCEPT !.pc = "s_update", !.success = FALSE,
                                        !.ticket = NoTicket, !.raised = TRUE,
                                        !.message =
                                            Wrap(IF closing THEN "Position close error"
                                                 ELSE "Trade execution error", DbError)]]
    /\ UNCHANGED <<config, symcfg, accounts, conns, handler, alerts, calls, nreq, faults, serial, mode, submitted, view, probe>>

\* process_webhook, lines 169-180: the Alert's final status; a commit that
\* raises ends in the except clause, which only logs and returns.
SUpdate(s) ==
    LET req == reqs[s] IN
    /\ req.pc = "s_update"
    /\ \E committed \in CommitOutcomes :
         IF committed
         THEN /\ alerts' = UpdateAlert(alerts, req.alert, req.success, req.message)
              /\ reqs' = [reqs EXCEPT ![s] = Return(req, req.success, req.ticket, req.message)]
         ELSE /\ UNCHANGED alerts
              /\ reqs' = [reqs EXCEPT ![s] =
                            [Return(req, FALSE, NoTicket,
                                    Wrap("Webhook processing error", DbError))
                                EXCEPT !.raised = TRUE]]
    /\ UNCHANGED <<config, symcfg, accounts, conns, handler, execs, calls, nreq, faults, serial, mode, submitted, view, probe>>

\* ------------------------------------------------------ MultiAccountManager

\* get_account_by_webhook_key without the is_active filter
get_account_by_webhook_key_Inactive(accts, webhook_key) ==
    LET found == {a \in AccountIds : /\ accts[a].present
                                     /\ accts[a].webhook_key = webhook_key}
    IN  IF found = {} THEN NoAccountId ELSE CHOOSE a \in found : TRUE

\* MultiAccountManager.get_account_by_webhook_key: the id of the active
\* account with that routing key, or NoAccountId
get_account_by_webhook_key(accts, webhook_key) ==
    LET found == {a \in AccountIds : /\ accts[a].present
                                     /\ accts[a].webhook_key = webhook_key
                                     /\ accts[a].is_active}
    IN  IF found = {} THEN NoAccountId ELSE CHOOSE a \in found : TRUE

\* MultiAccountManager.get_account_by_id, as a test
get_account_by_id(accts, a) == accts[a].present /\ accts[a].is_active

\* a connection test that returns the cached adapter when there is one
TestConnection_CheckCache(accts, cns, a, answer, committed) ==
    LET acc == accts[a]
        c == Connect(NewTrader, "host:443", acc.creds.login, acc.creds.password, answer)
        ret(rows, cache, ok, msg, called) ==
            [accounts |-> rows, conns |-> cache, ok |-> ok, message |-> msg,
             called |-> called]
    IN  IF ~get_account_by_id(accts, a)
        THEN ret(accts, cns, FALSE, Text("Account not found"), FALSE)
        ELSE IF cns[a].present
        THEN ret(accts, cns, TRUE, Text("Connection successful"), FALSE)
        ELSE IF ~committed
        THEN ret(accts, cns, FALSE, Wrap("Connection test failed", DbError), TRUE)
        ELSE IF c.ok
        THEN ret(accts, [cns EXCEPT ![a] = c.trader],
                 TRUE, Text("Connection successful"), TRUE)
        ELSE ret(accts, cns, FALSE, Text("Failed to connect to MT5"), TRUE)

\* MultiAccountManager.test_account_connection: rows, cache and result after
\* it (the is_connected / last_connected columns it writes are read by no
\* operation and are not kept)
TestConnection(accts, cns, a, answer, committed) ==
    LET acc == accts[a]
        c == Connect(NewTrader, "host:443", acc.creds.login, acc.creds.password, answer)
        ret(rows, cache, ok, msg, called) ==
            [accounts |-> rows, conns |-> cache, ok |-> ok, message |-> msg,
             called |-> called]
    IN  IF ~get_account_by_id(accts, a)
        THEN ret(accts, cns, FALSE, Text("Account not found"), FALSE)
        ELSE IF ~committed
        THEN ret(accts, cns, FALSE, Wrap("Connection test failed", DbError), TRUE)
        ELSE IF c.ok
        THEN ret(accts, [cns EXCEPT ![a] = c.trader],
                 TRUE, Text("Connection successful"), TRUE)
        ELSE ret(accts, cns, FALSE, Text("Failed to connect to MT5"), TRUE)

\* routes.webhook_multi_account up to the call of process_webhook_for_account
RouteMultiWith(s, payloads) ==
    LET req == reqs[s] IN
    /\ req.pc = "route" /\ req.path = "multi"
    /\ \E data \in payloads :
         reqs' = [reqs EXCEPT ![s] =
                     IF IsEmpty(data)
                     THEN Return(req, FALSE, NoTicket, Text("No JSON data provided"))
                     ELSE [req EXCEPT !.pc = "m_process", !.data = data]]
    /\ UNCHANGED <<config, symcfg, accounts, conns, handler, alerts, execs, calls,
                   nreq, faults, serial, mode, submitted, view, probe>>

RouteMulti(s) == RouteMultiWith(s, Payloads)

\* process_webhook_for_account, lines 152-172: the routing key and the Alert row
MProcess(s) ==
    LET req == reqs[s]
        a == get_account_by_webhook_key(accounts, req.key)
    IN
    /\ req.pc = "m_process"
    /\ IF a = NoAccountId
       THEN /\ reqs' = [reqs EXCEPT ![s] =
                          Return(req, FALSE, NoTicket, TextArg("Invalid webhook key", req.key))]
            /\ UNCHANGED alerts
       ELSE \E committed \in CommitOutcomes :
            /\ alerts' = Insert(alerts, NewAlert(req.id, a, Get(req.data, "symbol", ""),
                                                 Get(req.data, "action", "")), committed)
            /\ reqs' = [reqs EXCEPT ![s] =
                          IF committed
                          THEN [req EXCEPT !.pc = "m_lookup", !.acct = a,
                                           !.alert = Len(alerts) + 1]
                          ELSE Return(req, FALSE, NoTicket,
                                      Wrap("Webhook processing failed", DbError))]
    /\ UNCHANGED <<config, symcfg, accounts, conns, handler, execs, calls, nreq, faults, serial, mode, submitted, view, probe>>

\* execute_trade_for_account, lines 100-105: the account and the adapter cache
MLookup(s) ==
    LET req == reqs[s] IN
    /\ req.pc = "m_lookup"
    /\ reqs' = [reqs EXCEPT ![s] =
                  IF ~get_account_by_id(accounts, req.acct)
                  THEN [req EXCEPT !.pc = "m_update", !.success = FALSE,
                                   !.message = Text("Account not found")]
                  ELSE IF ~conns[req.acct].present
                  THEN [req EXCEPT !.pc = "m_connect"]
                  ELSE [req EXCEPT !.pc = "m_trade",
                                   !.snap = Counters(accounts[req.acct])]]
    /\ UNCHANGED <<config, symcfg, accounts, conns, handler, alerts, execs, calls,
                   nreq, faults, serial, mode, submitted, view, probe>>

\* execute_trade_for_account, lines 106-108: no adapter is cached, so
\* test_account_connection creates, connects and caches one
MConnect(s) ==
    LET req == reqs[s] IN
    /\ req.pc = "m_connect"
    /\ \E answer \in BrokerAnswers, committed \in CommitOutcomes :
         LET t == TestConnection(accounts, conns, req.acct, answer, committed) IN
         /\ accounts' = t.accounts
         /\ conns' = t.conns
         /\ calls' = IF t.called THEN Append(calls, ConnectCall(req.id)) ELSE calls
         /\ reqs' = [reqs EXCEPT ![s] =
                       IF t.ok
                       THEN [req EXCEPT !.pc = "m_trade",
                                        !.snap = Counters(t.accounts[req.acct])]
                       ELSE [req EXCEPT !.pc = "m_update", !.success = FALSE,
                                        !.raised = t.called /\ ~committed,
                                        !.message = Wrap("Failed to connect", t.message)]]
    /\ UNCHANGED <<config, symcfg, handler, alerts, execs, nreq, faults, serial, mode, submitted, view, probe>>

\* execute_trade_for_account, lines 110-131: the cached adapter closes the
\* symbol's positions or executes the trade
MTrade(s) ==
    LET req == reqs[s]
        trader == conns[req.acct]
        hasAction == Has(req.data, "action")
        volume == Get(req.data, "volume", accounts[req.acct].default_lot_size)
    IN
    /\ req.pc = "m_trade"
    /\ IF ~trader.present
       THEN /\ reqs' = [reqs EXCEPT ![s] =
                          [req EXCEPT !.pc = "m_update", !.success = FALSE,
                                      !.message = Wrap("Trade execution failed",
                                                       Text("KeyError"))]]
            /\ UNCHANGED calls
       ELSE IF hasAction /\ Upper(req.data.action) = "CLOSE"
       THEN \E positions \in PositionLists :
            \E accepted \in [DOMAIN positions -> BOOLEAN] :
               LET t == ClosePosition(trader, req.id, Get(req.data, "symbol", "None"),
                                      NoneNum, positions, accepted) IN
               /\ calls' = Append(calls, CloseCall(req.id)) \o t.orders
               /\ reqs' = [reqs EXCEPT ![s] = [req EXCEPT !.pc = "m_count",
                                                         !.found = Len(positions),
                                                         !.success = t.success,
                                                         !.ticket = NoTicket,
                                                         !.message = t.message]]
       ELSE \E quoted \in BOOLEAN, result \in OrderResults :
               LET t == ExecuteTrade(trader, req.id, hasAction, req.data.action,
                                     volume, quoted, result) IN
               /\ calls' = Append(calls, TradeCall(req.id)) \o t.orders
               /\ reqs' = [reqs EXCEPT ![s] = [req EXCEPT !.pc = "m_count",
                                                         !.volume = volume,
                                                         !.success = t.success,
                                                         !.ticket = t.ticket,
                                                         !.message = t.message]]
    /\ UNCHANGED <<config, symcfg, accounts, conns, handler, alerts, execs, nreq, faults, serial, mode, submitted, view, probe>>

\* a statistics update that forgets total_trades
CountTrade_NoTotal(acc, snap, success) ==
    [acc EXCEPT !.successful_trades = IF success THEN snap.successful_trades + 1
                                      ELSE acc.successful_trades,
                !.failed_trades = IF success THEN acc.failed_trades
                                  ELSE snap.failed_trades + 1]

\* a statistics update that increments the row as it is when the update is made
CountTrade_FromRow(acc, snap, success) ==
    [acc EXCEPT !.total_trades = acc.total_trades + 1,
                !.successful_trades = IF success THEN acc.successful_trades + 1
                                      ELSE acc.successful_trades,
                !.failed_trades = IF success THEN acc.failed_trades
                                  ELSE acc.failed_trades + 1]

\* the counters after execute_trade_for_account's update of the account object
\* it loaded (snap), lines 134-139: the two attributes it assigns are written
\* to the row, the third column stays as the row has it
CountTrade(acc, snap, success) ==
    [acc EXCEPT !.total_trades = snap.total_trades + 1,
                !.successful_trades = IF success THEN snap.successful_trades + 1
                                      ELSE acc.successful_trades,
                !.failed_trades = IF success THEN acc.failed_trades
                                  ELSE snap.failed_trades + 1]

\* execute_trade_for_account, lines 133-148: the account statistics
MCount(s) ==
    LET req == reqs[s] IN
    /\ req.pc = "m_count"
    /\ \E committed \in CommitOutcomes :
         IF committed
         THEN /\ accounts' = IF accounts[req.acct].present
                             THEN [accounts EXCEPT ![req.acct] =
                                      CountTrade(@, req.snap, req.success)]
                             ELSE accounts
              /\ reqs' = [reqs EXCEPT ![s].pc = "m_update"]
         ELSE /\ UNCHANGED accounts
              /\ reqs' = [reqs EXCEPT ![s] =
                            [req EXCEPT !.pc = "m_update", !.success = FALSE,
                                        !.ticket = NoTicket, !.raised = TRUE,
                                        !.message = Wrap("Trade execution failed", DbError)]]
    /\ UNCHANGED <<config, symcfg, conns, handler, alerts, execs, calls, nreq, faults, serial, mode, submitted, view, probe>>

\* process_webhook_for_account, lines 177-206: the Alert's final status and,
\* for a successful trade with a ticket, the TradeExecution row, in one commit;
\* a commit that raises is rolled back and reported
MUpdate(s) ==
    LET req == reqs[s]
        row == NewExecution(req.alert, req.ticket, Get(req.data, "action", ""),
                            req.volume, TRUE, NoMsg)
    IN
    /\ req.pc = "m_update"
    /\ \E committed \in CommitOutcomes :
         IF committed
         THEN /\ alerts' = UpdateAlert(alerts, req.alert, req.success, req.message)
              /\ execs' = IF req.success /\ req.ticket # NoTicket
                          THEN Append(execs, row) ELSE execs
              /\ reqs' = [reqs EXCEPT ![s] = Return(req, req.success, req.ticket, req.message)]
         ELSE /\ UNCHANGED <<alerts, execs>>
              /\ reqs' = [reqs EXCEPT ![s] =
                            [Return(req, FALSE, NoTicket,
                                    Wrap("Webhook processing failed", DbError))
                                EXCEPT !.raised = TRUE]]
    /\ UNCHANGED <<config, symcfg, accounts, conns, handler, calls, nreq, faults, serial, mode, submitted, view, probe>>

\* ------------------------------------------------- administrative operations
\* routes.settings: the page creates the TradingConfig row when there is none
SettingsPage ==
    /\ SingleAdmin
    /\ ~config.present
    /\ config' = DefaultConfig
    /\ UNCHANGED <<symcfg, accounts, conns, handler, alerts, execs, calls, reqs, nreq,
                   faults, serial, mode, submitted, view, probe>>

\* routes.update_trading_settings: the form is stored, then the handler is
\* fetched (created and connected on first use) and reconnected
UpdateTradingSettings ==
    /\ SingleAdmin
    /\ \E active \in BOOLEAN, limit \in DailyLimits, creds \in Creds :
       \E answer \in BrokerAnswers :
         LET cfg == [DefaultConfig EXCEPT !.is_active = active,
                                          !.max_daily_trades = limit, !.creds = creds]
             c1 == IF handler.present THEN [trader |-> handler, called |-> FALSE]
                   ELSE ConnectMt5(NewTrader, cfg, answer)
             c2 == ConnectMt5(c1.trader, cfg, answer)
         IN  /\ config' = cfg
             /\ handler' = c2.trader
    /\ submitted' = 0
    /\ UNCHANGED <<symcfg, accounts, conns, alerts, execs, calls, reqs, nreq, faults, serial, mode, view, probe>>

\* routes.add_symbol: a SymbolConfig row is created or updated
AddSymbol ==
    /\ SingleAdmin
    /\ \E sym \in Symbols, enabled \in BOOLEAN :
         symcfg' = [symcfg EXCEPT ![sym] =
                       [present |-> TRUE, lot_size |-> DefaultLotSize,
                        max_position_size |-> DefaultMaxPositionSize,
                        is_enabled |-> enabled]]
    /\ UNCHANGED <<config, accounts, conns, handler, alerts, execs, calls, reqs, nreq,
                   faults, serial, mode, submitted, view, probe>>

\* routes.delete_symbol
DeleteSymbol ==
    /\ SingleAdmin
    /\ \E sym \in Symbols :
         /\ symcfg[sym].present
         /\ symcfg' = [symcfg EXCEPT ![sym] = NoSymbolConfig]
    /\ UNCHANGED <<config, accounts, conns, handler, alerts, execs, calls, reqs, nreq,
                   faults, serial, mode, submitted, view, probe>>

\* MultiAccountManager.create_account / routes.create_account
CreateAccount ==
    /\ MultiAdmin
    /\ \E a \in AccountIds, creds \in Creds, limit \in DailyLimits :
         /\ ~accounts[a].present /\ ~accounts[a].removed
         /\ \A b \in AccountIds : b < a => accounts[b].present \/ accounts[b].removed
         /\ accounts' = [accounts EXCEPT ![a] =
                            [NoAccount EXCEPT !.present = TRUE, !.webhook_key = KeyOf(a),
                                              !.is_active = TRUE, !.creds = creds,
                                              !.max_daily_trades = limit,
                                              !.default_lot_size = DefaultLotSize]]
    /\ UNCHANGED <<config, symcfg, conns, handler, alerts, execs, calls, reqs, nreq,
                   faults, serial, mode, submitted, view, probe>>

\* MultiAccountManager.delete_account: the cached adapter is disconnected and
\* dropped, the row is deactivated
ManagerDeleteAccount ==
    /\ MultiAdmin
    /\ \E a \in AccountIds :
         /\ get_account_by_id(accounts, a)
         /\ conns' = [conns EXCEPT ![a] = NoTrader]
         /\ accounts' = [accounts EXCEPT ![a].is_active = FALSE]
    /\ UNCHANGED <<config, symcfg, handler, alerts, execs, calls, reqs, nreq, faults, serial, mode, submitted, view, probe>>

\* routes.delete_account: the row is deleted; the ORM clears account_id in the
\* alerts that referenced it
RouteDeleteAccount ==
    /\ MultiAdmin
    /\ \E a \in AccountIds :
         /\ accounts[a].present
         /\ accounts' = [accounts EXCEPT ![a] = [NoAccount EXCEPT !.removed = TRUE]]
         /\ alerts' = [i \in DOMAIN alerts |->
                          IF alerts[i].account_id = a
                          THEN [alerts[i] EXCEPT !.account_id = NoAccountId]
                          ELSE alerts[i]]
    /\ UNCHANGED <<config, symcfg, conns, handler, execs, calls, reqs, nreq, faults, serial, mode, submitted, view, probe>>

\* MultiAccountManager.test_account_connection called on its own
ManagerTestConnection ==
    /\ MultiAdmin
    /\ \E a \in AccountIds, answer \in BrokerAnswers, committed \in CommitOutcomes :
         LET t == TestConnection(accounts, conns, a, answer, committed) IN
         /\ get_account_by_id(accounts, a)
         /\ accounts' = t.accounts
         /\ conns' = t.conns
    /\ UNCHANGED <<config, symcfg, handler, alerts, execs, calls, reqs, nreq, faults, serial, mode, submitted, view, probe>>

\* midnight UTC passes: the rows recorded so far are no longer today's
Midnight ==
    /\ submitted > 0 \/ \E i \in DOMAIN execs : execs[i].current
    /\ execs' = [i \in DOMAIN execs |-> [execs[i] EXCEPT !.current = FALSE]]
    /\ submitted' = 0
    /\ UNCHANGED <<config, symcfg, accounts, conns, handler, alerts, calls, reqs, nreq,
                   faults, serial, mode, view, probe>>

Next ==
    \/ \E s \in Slots :
          \/ Begin(s)
          \/ RouteWebhook(s) \/ SProcess(s) \/ SGate(s) \/ STrade(s) \/ SRecord(s)
          \/ SUpdate(s)
          \/ RouteMulti(s) \/ MProcess(s) \/ MLookup(s) \/ MConnect(s) \/ MTrade(s)
          \/ MCount(s) \/ MUpdate(s)
    \/ SettingsPage \/ UpdateTradingSettings \/ AddSymbol \/ DeleteSymbol
    \/ CreateAccount \/ ManagerDeleteAccount \/ RouteDeleteAccount
    \/ ManagerTestConnection \/ Midnight

\* the service with a database whose commits succeed
Spec == Init /\ [][Next]_vars
\* the service with a database whose commits can raise
SpecFault == InitFault /\ [][Next]_vars

\* ----------------------------------------------------- the adapter on its own
\* An MT5Trader as its callers use it (routes.dashboard, routes.test_connection,
\* api_connection_status): connect, disconnect and the two read-only calls, in
\* any order.
InitAdapter ==
    /\ InitCommon
    /\ mode = "single"
    /\ faults = FALSE

AdapterFrame ==
    UNCHANGED <<config, symcfg, accounts, conns, alerts, execs, calls, reqs, nreq,
                faults, serial, mode, submitted, probe>>

AdapterCreate ==
    /\ ~handler.present
    /\ handler' = NewTrader
    /\ UNCHANGED view
    /\ AdapterFrame

AdapterConnect ==
    /\ handler.present
    /\ \E creds \in Creds, answer \in BrokerAnswers :
         handler' = Connect(handler, IF creds.login = "" THEN "" ELSE "host:443",
                            creds.login, creds.password, answer).trader
    /\ view' = <<>>
    /\ AdapterFrame

AdapterDisconnect ==
    /\ handler.present
    /\ handler' = Disconnect(handler)
    /\ view' = <<>>
    /\ AdapterFrame

AdapterGetAccountInfo ==
    /\ handler.present
    /\ Len(view) < MaxReads
    /\ \E answer \in InfoAnswers :
         LET r == get_account_info(handler, answer) IN
         /\ handler' = r.trader
         /\ view' = Append(view, [r EXCEPT !.trader = NoTrader])
    /\ AdapterFrame

AdapterGetPositions ==
    /\ handler.present
    /\ Len(view) < MaxReads
    /\ \E positions \in PositionLists :
         LET r == get_positions(handler, positions) IN
         /\ handler' = r.trader
         /\ view' = Append(view, [r EXCEPT !.trader = NoTrader])
    /\ AdapterFrame

NextAdapter ==
    \/ AdapterCreate \/ AdapterConnect \/ AdapterDisconnect
    \/ AdapterGetAccountInfo \/ AdapterGetPositions

SpecAdapter == InitAdapter /\ [][NextAdapter]_vars

\* ------------------------------------------------ webhooks handled in parallel
\* The server handles each request in a thread of its own (app.run). Two
\* accounts exist and are active; webhooks for them arrive while others are
\* still being processed.
ActiveAccount(a) ==
    [NoAccount EXCEPT !.present = TRUE, !.webhook_key = KeyOf(a), !.is_active = TRUE,
                      !.creds = [login |-> "12345678", password |-> "secret"],
                      !.max_daily_trades = DefaultMaxDailyTrades,
                      !.default_lot_size = DefaultLotSize]

InitConcurrent ==
    /\ accounts = [a \in TwoAccounts |-> ActiveAccount(a)]
    /\ InitService
    /\ serial = FALSE
    /\ mode = "multi"
    /\ faults = FALSE

\* the webhooks of a strategy that buys, sent to the routing keys of the two
\* accounts
TradePayloads ==
    { Payload({"symbol", "action"}, sym, a, NoneNum) : sym \in Symbols, a \in {"BUY"} }
IssuedKeys == {KeyOf(a) : a \in TwoAccounts}

NextConcurrent ==
    \E s \in Slots :
        \/ BeginWith(s, IssuedKeys)
        \/ RouteMultiWith(s, TradePayloads) \/ MProcess(s) \/ MLookup(s) \/ MConnect(s) \/ MTrade(s)
        \/ MCount(s) \/ MUpdate(s)

SpecConcurrent == InitConcurrent /\ [][NextConcurrent]_vars

\* --------------------------------------------------- AdvancedRiskManager
\* AdvancedRiskManager.__init__: the limits, in thousandths of a lot
NlbMaxDailyVolume == 10000
NlbMaxPositionSize == 2000
AllowedSymbols == {"EURUSD", "GBPUSD", "USDJPY", "AUDUSD"}
\* trade_data.get('volume', 0.01)
NlbDefaultVolume == 10

\* AdvancedRiskManager.check_risk_limits(trade_data, daily_stats);
\* daily_volume is daily_stats.get('total_volume', 0)
NlbCheckRiskLimits(trade_data, daily_volume) ==
    LET symbol == Upper(Get(trade_data, "symbol", ""))
        volume == Get(trade_data, "volume", NlbDefaultVolume)
        action == Upper(Get(trade_data, "action", ""))
    IN  IF symbol \notin AllowedSymbols
        THEN [ok |-> FALSE, message |-> TextArg("Symbol not in allowed list", symbol)]
        ELSE IF daily_volume + volume > NlbMaxDailyVolume
        THEN [ok |-> FALSE,
              message |-> Msg("Daily volume limit exceeded", "",
                              daily_volume + volume, NlbMaxDailyVolume)]
        ELSE IF volume > NlbMaxPositionSize
        THEN [ok |-> FALSE,
              message |-> Msg("Position size too large", "", volume, NlbMaxPositionSize)]
        ELSE IF action = "CLOSE"
        THEN [ok |-> TRUE, message |-> Text("Close action approved")]
        ELSE [ok |-> TRUE, message |-> Text("Risk checks passed")]

\* the trade_data and daily_stats the evaluator is called with
NlbSymbols == {"EURUSD", "eurusd", "XAUUSD"}
NlbActions == ActionInputs \cup {"close"}
NlbVolumes == {10, 2000, 2010, 12000}
NlbDailyVolumes == {0, 8000, 9990, 10000}
NlbPayloads ==
    { Payload(ks, IF "symbol" \in ks THEN s ELSE "",
                  IF "action" \in ks THEN a ELSE "",
                  IF "volume" \in ks THEN v ELSE NoneNum) :
        ks \in SUBSET {"symbol", "action", "volume"},
        s \in NlbSymbols, a \in NlbActions, v \in NlbVolumes }

ProbeFrame ==
    UNCHANGED <<config, symcfg, accounts, conns, handler, alerts, execs, calls, reqs,
                nreq, faults, serial, mode, submitted, view>>

\* one call of the evaluator
RiskCheck ==
    /\ \E trade_data \in NlbPayloads, daily_volume \in NlbDailyVolumes :
         probe' = [op |-> "check_risk_limits", trade_data |-> trade_data,
                   daily_volume |-> daily_volume,
                   result |-> NlbCheckRiskLimits(trade_data, daily_volume)]
    /\ ProbeFrame

InitProbe ==
    /\ InitCommon
    /\ mode = "single"
    /\ faults = FALSE

SpecRisk == InitProbe /\ [][RiskCheck]_vars

\* ------------------------------------------------ execute_trade on its own
\* requested volumes around volume_min, around volume_max and far above it
\* (0.005 lots is 5, 150 lots is 150000)
RequestedVolumes == (0 .. 30) \cup (99985 .. 100015) \cup {150000}
\* a connected adapter
ConnectedTrader == Connect(NewTrader, "", "", "", "ok").trader

\* one call of MT5Trader.execute_trade on a connected adapter, for a symbol the
\* terminal quotes
ExecuteTradeCall ==
    /\ \E volume \in RequestedVolumes, action \in {"BUY", "sell"}, result \in OrderResults :
         probe' = [op |-> "execute_trade", volume |-> volume, action |-> action,
                   out |-> ExecuteTrade(ConnectedTrader, 0, TRUE, action, volume,
                                        TRUE, result)]
    /\ ProbeFrame

SpecVolume == InitProbe /\ [][ExecuteTradeCall]_vars

\* ----------------------------------------------- close_position on its own
\* the open positions of a symbol, by type: up to three
ClosePositionLists ==
    {<<>>} \cup UNION {[1 .. k -> {"BUY", "SELL"}] : k \in {1, 2, 3}}
\* the volume argument: None, or half of a position's volume
CloseVolumes == {NoneNum, PositionVolume \div 2}

\* one call of MT5Trader.close_position on a connected adapter
ClosePositionCall ==
    /\ \E positions \in ClosePositionLists, volume \in CloseVolumes :
       \E accepted \in [DOMAIN positions -> BOOLEAN] :
         probe' = [op |-> "close_position", positions |-> positions,
                   accepted |-> accepted, volume |-> volume,
                   out |-> ClosePosition(ConnectedTrader, 0, "EURUSD", volume,
                                         positions, accepted)]
    /\ ProbeFrame

SpecClose == InitProbe /\ [][ClosePositionCall]_vars

\* ================================================================== claims
Terminal == {"PROCESSED", "FAILED"}
\* request s takes a step of its handler from position pc
StepAt(s, pc) == reqs[s].pc = pc /\ reqs'[s] # reqs[s]
CallsOf(id) == {k \in DOMAIN calls : calls[k].req = id}
Failed(req, msg) == req.pc = "done" /\ ~req.success /\ req.message = msg

\* C1: an Alert row appears only with status RECEIVED, its status changes only
\* from RECEIVED to PROCESSED or to FAILED, and a PROCESSED or FAILED Alert
\* keeps its status through every later operation (commits may raise).
AlertStatusMonotonic ==
    [][ /\ Len(alerts') >= Len(alerts)
        /\ \A i \in DOMAIN alerts' :
              IF i \in DOMAIN alerts
              THEN \/ alerts'[i].status = alerts[i].status
                   \/ alerts[i].status = "RECEIVED" /\ alerts'[i].status \in Terminal
              ELSE alerts'[i].status = "RECEIVED" ]_vars

\* C1 witness: a FAILED Alert and a later PROCESSED one, both still as they ended
AlertStatusWitness ==
    \E i \in DOMAIN alerts, j \in DOMAIN alerts :
        i < j /\ alerts[i].status = "FAILED" /\ alerts[j].status = "PROCESSED"

\* C2: every adapter call and every order of an entry point belongs to a
\* webhook whose Alert row is already in the table, and while the entry point
\* is still at work that row is the request's own and RECEIVED (commits may
\* raise). The connect of routes.get_webhook_handler is made by the route
\* before it calls the entry point, and is no call of the entry point.
BrokerCallsFollowAlert ==
    /\ \A k \in DOMAIN calls :
          \E i \in DOMAIN alerts : alerts[i].req = calls[k].req
    /\ \A s \in Slots :
          (InFlight(reqs[s]) /\ CallsOf(reqs[s].id) # {})
            => /\ reqs[s].alert \in DOMAIN alerts
               /\ alerts[reqs[s].alert].req = reqs[s].id
               /\ alerts[reqs[s].alert].status = "RECEIVED"

\* C2 witness: an order has been sent while its Alert is still RECEIVED
BrokerCallsWitness ==
    \E k \in DOMAIN calls, i \in DOMAIN alerts :
        /\ calls[k].op = "order_send"
        /\ alerts[i].req = calls[k].req
        /\ alerts[i].status = "RECEIVED"

\* C3 (as claimed): when an exception was raised after the Alert row was
\* created, the Alert is FAILED with the reported error once the entry point
\* has returned.
ExceptionLeavesAlertFailed ==
    \A s \in Slots :
        (reqs[s].pc = "done" /\ reqs[s].raised /\ reqs[s].alert # 0)
            => /\ alerts[reqs[s].alert].status = "FAILED"
               /\ alerts[reqs[s].alert].error_message = reqs[s].message

\* C4: process_webhook with a key that is not the configured one (or with no
\* TradingConfig row) fails with "Invalid API key" and leaves the tables, the
\* adapter and the call log as they were.
InvalidApiKeyChangesNothing ==
    [][ \A s \in Slots :
          (StepAt(s, "s_process") /\ (~config.present \/ config.api_key # reqs[s].key))
            => /\ Failed(reqs'[s], Text("Invalid API key"))
               /\ reqs'[s].alert = 0
               /\ alerts' = alerts /\ execs' = execs
               /\ handler' = handler /\ calls' = calls ]_vars

\* C4 witness: a bad key was refused while a configuration, a connected
\* adapter and an earlier Alert existed
InvalidApiKeyWitness ==
    \E s \in Slots :
        /\ Failed(reqs[s], Text("Invalid API key"))
        /\ config.present /\ handler.is_connected /\ Len(alerts) > 0

\* the payloads the Webhook Parser has to reject
MissingFields(data) == {f \in {"symbol", "action"} : ~Has(data, f)}
InvalidPayload(data) ==
    MissingFields(data) # {} \/ Upper(data.action) \notin {"BUY", "SELL", "CLOSE"}

\* C5: process_webhook with a valid key fails on a payload without symbol or
\* action, or with an action outside BUY/SELL/CLOSE, naming the field or the
\* action, and creates no row and calls nothing; any other payload is accepted
\* and its Alert stores the action in upper case.
SingleParserRejects ==
    [][ \A s \in Slots :
          (StepAt(s, "s_process") /\ config.present /\ config.api_key = reqs[s].key)
            => LET data == reqs[s].data IN
               IF InvalidPayload(data)
               THEN /\ reqs'[s].pc = "done" /\ ~reqs'[s].success
                    /\ \/ /\ reqs'[s].message.text = "Missing required field"
                          /\ reqs'[s].message.arg \in MissingFields(data)
                       \/ /\ MissingFields(data) = {}
                          /\ reqs'[s].message = TextArg("Invalid action", data.action)
                    /\ alerts' = alerts /\ execs' = execs /\ calls' = calls
               ELSE /\ Len(alerts') = Len(alerts) + 1
                    /\ alerts'[Len(alerts')].action = Upper(data.action)
                    /\ alerts'[Len(alerts')].action \in {"BUY", "SELL", "CLOSE"}
                    /\ reqs'[s].alert = Len(alerts') ]_vars

\* C5 witness: a lower-case action was accepted and stored in upper case
SingleParserWitness ==
    \E s \in Slots :
        /\ reqs[s].pc = "s_gate"
        /\ reqs[s].data.action = "sell"
        /\ alerts[reqs[s].alert].action = "SELL"

\* C6 (as claimed): on the multi-account path no step of a request with an
\* invalid payload adds an Alert, calls the adapter or moves a counter.
MultiParserRejects ==
    [][ \A s \in Slots :
          ( /\ reqs[s].path = "multi"
            /\ reqs[s].pc \notin {"idle", "route", "done"}
            /\ reqs'[s] # reqs[s]
            /\ InvalidPayload(reqs[s].data) )
            => /\ Len(alerts') = Len(alerts)
               /\ calls' = calls
               /\ \A a \in AccountIds : Counters(accounts'[a]) = Counters(accounts[a]) ]_vars

\* C7: process_webhook_for_account with a routing key of no active account
\* fails and changes no table, no counter, no cached adapter and calls nothing.
UnknownKeyChangesNothing ==
    [][ \A s \in Slots :
          ( /\ StepAt(s, "m_process")
            /\ ~\E a \in AccountIds : /\ accounts[a].present /\ accounts[a].is_active
                                      /\ accounts[a].webhook_key = reqs[s].key )
            => /\ Failed(reqs'[s], TextArg("Invalid webhook key", reqs[s].key))
               /\ reqs'[s].alert = 0 /\ reqs'[s].ticket = NoTicket
               /\ alerts' = alerts /\ execs' = execs /\ accounts' = accounts
               /\ conns' = conns /\ calls' = calls ]_vars

\* C7 witness: the key of a deactivated account was refused while Alerts of
\* that account exist
UnknownKeyWitness ==
    \E s \in Slots, a \in AccountIds :
        /\ Failed(reqs[s], TextArg("Invalid webhook key", KeyOf(a)))
        /\ accounts[a].present /\ ~accounts[a].is_active
        /\ Len(alerts) > 0

\* C8 (as claimed): a request refused for its API key or routing key is
\* answered 401, any other failure 400, success 200.
HttpStatusByFailure ==
    \A s \in Slots :
        reqs[s].pc = "done"
            => reqs[s].http =
                 IF reqs[s].success THEN 200
                 ELSE IF reqs[s].message.text \in {"Invalid API key", "Invalid webhook key"}
                      THEN 401
                      ELSE 400

\* C9: when check_risk_limits denies a BUY or SELL of process_webhook, the
\* step neither connects nor calls the adapter and hands the evaluator's
\* reason on; a denied request never has an adapter call or an order, and it
\* returns that reason with its Alert FAILED and carrying it.
RiskDenialStops ==
    [][ /\ \A s \in Slots :
             LET cfg == config
                 sc == symcfg[reqs[s].parsed.symbol]
                 volume == Get(reqs[s].parsed, "volume",
                               IF sc.present THEN sc.lot_size ELSE cfg.default_lot_size)
                 risk == check_risk_limits(cfg, sc, volume, DailyTrades(execs))
             IN  ( /\ StepAt(s, "s_gate")
                   /\ reqs[s].parsed.action \in {"BUY", "SELL"}
                   /\ cfg.present /\ cfg.is_active
                   /\ ~risk.ok )
                   => /\ reqs'[s].denied
                      /\ reqs'[s].message = risk.message
                      /\ handler' = handler /\ calls' = calls /\ execs' = execs
        /\ \A s \in Slots :
             reqs'[s].denied
               => /\ ~reqs'[s].success
                  /\ reqs'[s].pc \in {"s_update", "done"}
                  /\ \A k \in DOMAIN calls' : calls'[k].req # reqs'[s].id
                  /\ \A i \in DOMAIN execs' : execs'[i].alert # reqs'[s].alert
                  /\ (reqs[s].denied /\ reqs[s].id = reqs'[s].id)
                       => reqs'[s].message = reqs[s].message
                  /\ (reqs'[s].pc = "done" /\ reqs'[s] # reqs[s])
                       => /\ alerts'[reqs'[s].alert].status = "FAILED"
                          /\ alerts'[reqs'[s].alert].error_message = reqs'[s].message ]_vars

\* C9 witness: a denied request has returned; the adapter is still not
\* connected although the stored configuration would have connected it
RiskDenialWitness ==
    \E s \in Slots :
        /\ reqs[s].pc = "done" /\ reqs[s].denied
        /\ alerts[reqs[s].alert].status = "FAILED"
        /\ ~handler.is_connected
        /\ config.is_active /\ config.creds.login = ""

\* the Executions recorded today for an account, other than those of one Alert
TradesToday(a, except) ==
    Cardinality({i \in DOMAIN execs : /\ execs[i].current
                                      /\ execs[i].alert # except
                                      /\ alerts[execs[i].alert].account_id = a})

\* C10 (as claimed): no BUY or SELL of process_webhook_for_account reaches
\* the terminal once the account has max_daily_trades trades recorded today.
MultiDailyLimitGates ==
    \A s \in Slots :
        ( /\ reqs[s].path = "multi"
          /\ reqs[s].pc \in {"m_count", "m_update"}
          /\ ~InvalidPayload(reqs[s].data)
          /\ Upper(reqs[s].data.action) \in {"BUY", "SELL"}
          /\ \E k \in CallsOf(reqs[s].id) : calls[k].op = "order_send" )
          => TradesToday(reqs[s].acct, reqs[s].alert)
                < accounts[reqs[s].acct].max_daily_trades

\* the Execution rows recorded since midnight (UTC), as the evaluator counts them
RecordedToday == Cardinality({i \in DOMAIN execs : execs[i].current})

\* C11: when process_webhook evaluates a BUY or SELL (the configuration is
\* active) and the n Execution rows recorded since midnight are at least
\* max_daily_trades, the request is denied with "Daily trade limit reached:
\* n/max_daily_trades" and nothing is called; and the BUY/SELL orders
\* submitted since midnight under one unchanged configuration never exceed
\* its max_daily_trades.
DailyLimitDenies ==
    [][ /\ \A s \in Slots :
             ( /\ StepAt(s, "s_gate")
               /\ reqs[s].parsed.action \in {"BUY", "SELL"}
               /\ config.present /\ config.is_active
               /\ RecordedToday >= config.max_daily_trades )
               => /\ reqs'[s].pc = "s_update" /\ ~reqs'[s].success
                  /\ reqs'[s].message = Msg("Daily trade limit reached", "",
                                             RecordedToday, config.max_daily_trades)
                  /\ calls' = calls /\ submitted' = submitted /\ handler' = handler
        /\ submitted' > 0 => (config'.present /\ submitted' <= config'.max_daily_trades) ]_vars

\* C11 witness: the limit is 1, one order went out today and a later BUY or
\* SELL has been denied for it
DailyLimitWitness ==
    \E s \in Slots :
        /\ reqs[s].pc = "done" /\ reqs[s].denied
        /\ reqs[s].message = Msg("Daily trade limit reached", "", 1, 1)
        /\ submitted = 1 /\ config.max_daily_trades = 1
\* C12 (as claimed): process_webhook lets no CLOSE reach close_position once
\* the Execution rows recorded today have reached max_daily_trades.
CloseCountsAgainstLimit ==
    \A s \in Slots :
        ( /\ reqs[s].path = "single"
          /\ reqs[s].pc = "s_record"
          /\ reqs[s].parsed.action = "CLOSE"
          /\ \E k \in CallsOf(reqs[s].id) : calls[k] = CloseCall(reqs[s].id) )
          => RecordedToday < config.max_daily_trades
\* the Execution rows of one Alert
ExecutionsOf(rows, alert_id) == {i \in DOMAIN rows : rows[i].alert = alert_id}
\* request s is a BUY or SELL on the multi-account path whose order the
\* terminal has accepted: execute_trade sent it and reported success
OrderAccepted(s) ==
    /\ reqs[s].path = "multi"
    /\ reqs[s].pc \in {"m_count", "m_update"}
    /\ Has(reqs[s].data, "action") /\ Upper(reqs[s].data.action) \in {"BUY", "SELL"}
    /\ \E k \in CallsOf(reqs[s].id) : calls[k].op = "order_send"
    /\ reqs[s].success

\* C13: a BUY or SELL of process_webhook_for_account whose order the terminal
\* accepts adds 1 to total_trades and to successful_trades and leaves
\* failed_trades, and returns success with a ticket, its Alert PROCESSED
\* without error message and exactly one Execution row of that Alert, FILLED
\* and with that ticket; no other step of the request moves a counter.
AcceptedOrderOutcome ==
    [][ \A s \in Slots :
          LET a == reqs[s].acct
              al == reqs[s].alert
          IN
          /\ (OrderAccepted(s) /\ StepAt(s, "m_count"))
               => /\ accounts'[a].total_trades = accounts[a].total_trades + 1
                  /\ accounts'[a].successful_trades = accounts[a].successful_trades + 1
                  /\ accounts'[a].failed_trades = accounts[a].failed_trades
                  /\ OrderAccepted(s)'
          /\ (OrderAccepted(s) /\ StepAt(s, "m_update"))
               => /\ reqs'[s].pc = "done" /\ reqs'[s].success
                  /\ reqs'[s].ticket # NoTicket /\ reqs'[s].ticket \in Tickets
                  /\ reqs'[s].http = 200
                  /\ alerts'[al].status = "PROCESSED"
                  /\ alerts'[al].error_message = NoMsg
                  /\ Cardinality(ExecutionsOf(execs', al)) = 1
                  /\ \A i \in ExecutionsOf(execs', al) :
                        /\ execs'[i].status = "FILLED"
                        /\ execs'[i].ticket = reqs'[s].ticket
                  /\ accounts' = accounts
          /\ ( /\ reqs[s].path = "multi" /\ reqs'[s] # reqs[s]
                /\ reqs[s].pc \notin {"m_count", "idle", "done"} )
               => \A b \in AccountIds : Counters(accounts'[b]) = Counters(accounts[b]) ]_vars

\* C13 witness: an accepted order has been answered; the account counts one
\* successful trade more than failed ones
AcceptedOrderWitness ==
    \E s \in Slots, a \in AccountIds :
        /\ reqs[s].path = "multi" /\ reqs[s].pc = "done" /\ reqs[s].success
        /\ reqs[s].ticket # NoTicket
        /\ alerts[reqs[s].alert].account_id = a
        /\ accounts[a].successful_trades = 1 /\ accounts[a].total_trades = 2

\* C14: the three counters of an Account row never decrease, successful_trades
\* + failed_trades never exceeds total_trades, and the two are equal whenever
\* no request is in progress (commits may raise).
CountersGrow ==
    [][ \A a \in AccountIds :
          /\ (accounts[a].present /\ accounts'[a].present)
               => /\ accounts'[a].total_trades >= accounts[a].total_trades
                  /\ accounts'[a].successful_trades >= accounts[a].successful_trades
                  /\ accounts'[a].failed_trades >= accounts[a].failed_trades
          /\ accounts'[a].successful_trades + accounts'[a].failed_trades
                <= accounts'[a].total_trades
          /\ Quiet' => accounts'[a].successful_trades + accounts'[a].failed_trades
                          = accounts'[a].total_trades ]_vars

\* C14 witness: an account has counted a successful and a failed trade
CountersGrowWitness ==
    \E a \in AccountIds :
        /\ Quiet
        /\ accounts[a].successful_trades = 1 /\ accounts[a].failed_trades = 1
        /\ accounts[a].total_trades = 2

\* C14, with webhooks handled in parallel: the three counters of an Account
\* row never decrease and successful_trades + failed_trades never exceeds
\* total_trades.
CountersGrowInParallel ==
    [][ \A a \in AccountIds :
          /\ accounts'[a].total_trades >= accounts[a].total_trades
          /\ accounts'[a].successful_trades >= accounts[a].successful_trades
          /\ accounts'[a].failed_trades >= accounts[a].failed_trades
          /\ accounts'[a].successful_trades + accounts'[a].failed_trades
                <= accounts'[a].total_trades ]_vars

\* the Alerts of an account that ended with a given status
AlertsEnded(a, status) ==
    Cardinality({i \in DOMAIN alerts : alerts[i].account_id = a /\ alerts[i].status = status})

\* C15 (as claimed): while no request is in progress, an account's
\* successful_trades is the number of its PROCESSED Alerts, its failed_trades
\* the number of its FAILED Alerts and its total_trades the number of both.
CountersMatchAlerts ==
    \A a \in AccountIds :
        (Quiet /\ accounts[a].present)
          => /\ accounts[a].successful_trades = AlertsEnded(a, "PROCESSED")
             /\ accounts[a].failed_trades = AlertsEnded(a, "FAILED")
             /\ accounts[a].total_trades
                  = AlertsEnded(a, "PROCESSED") + AlertsEnded(a, "FAILED")

\* C16 (as claimed): when process_webhook_for_account has returned and the
\* request reached execute_trade or close_position, its Alert has exactly one
\* Execution row, FILLED for a PROCESSED Alert and FAILED for a FAILED one.
MultiAttemptRecorded ==
    \A s \in Slots :
        ( /\ reqs[s].path = "multi" /\ reqs[s].pc = "done"
          /\ \E k \in CallsOf(reqs[s].id) : calls[k].op \in {"execute_trade", "close_position"} )
          => /\ alerts[reqs[s].alert].status \in Terminal
             /\ Cardinality(ExecutionsOf(execs, reqs[s].alert)) = 1
             /\ \A i \in ExecutionsOf(execs, reqs[s].alert) :
                   execs[i].status = IF alerts[reqs[s].alert].status = "PROCESSED"
                                     THEN "FILLED" ELSE "FAILED"
\* process_webhook is handling a CLOSE for which positions_get found nothing
ClosingNothing(s) ==
    /\ reqs[s].path = "single"
    /\ reqs[s].parsed.action = "CLOSE"
    /\ reqs[s].found = 0
NoPositionsMsg(s) == TextArg("No open positions for", reqs[s].parsed.symbol)

\* C17: a CLOSE of process_webhook on a connected adapter with no open
\* position of the symbol sends no order and fails with "No open positions
\* for <symbol>"; exactly one Execution row is written for the Alert, a
\* CLOSE that is FAILED with that message; the Alert ends FAILED with it and
\* the caller receives it.
CloseOfNothingFails ==
    [][ \A s \in Slots :
          /\ (StepAt(s, "s_trade") /\ ClosingNothing(s)')
               => /\ handler.is_connected
                  /\ calls' = Append(calls, CloseCall(reqs[s].id))
                  /\ ~reqs'[s].success
                  /\ reqs'[s].message = NoPositionsMsg(s)
                  /\ reqs'[s].parsed.symbol \in Symbols
          /\ (StepAt(s, "s_record") /\ ClosingNothing(s))
               => /\ calls' = calls
                  /\ execs' = Append(execs, execs'[Len(execs')])
                  /\ ExecutionsOf(execs', reqs[s].alert) = {Len(execs')}
                  /\ execs'[Len(execs')].action = "CLOSE"
                  /\ execs'[Len(execs')].status = "FAILED"
                  /\ execs'[Len(execs')].error_message = NoPositionsMsg(s)
                  /\ ClosingNothing(s)' /\ reqs'[s].message = reqs[s].message
          /\ (StepAt(s, "s_update") /\ ClosingNothing(s))
               => /\ calls' = calls /\ execs' = execs
                  /\ reqs'[s].pc = "done" /\ ~reqs'[s].success
                  /\ reqs'[s].message = NoPositionsMsg(s)
                  /\ alerts'[reqs[s].alert].status = "FAILED"
                  /\ alerts'[reqs[s].alert].error_message = NoPositionsMsg(s) ]_vars

\* C17 witness: such a CLOSE has been answered
CloseOfNothingWitness ==
    \E s \in Slots :
        /\ reqs[s].path = "single" /\ reqs[s].pc = "done"
        /\ reqs[s].message = TextArg("No open positions for", "EURUSD")
        /\ alerts[reqs[s].alert].status = "FAILED"
        /\ \E i \in ExecutionsOf(execs, reqs[s].alert) : execs[i].status = "FAILED"
\* C18 (as claimed): no operation removes an Account row, so every Alert
\* keeps the account it was recorded for, that account's row exists, and
\* every Execution references an Alert of the table.
AccountRowsKept ==
    [][ /\ \A a \in AccountIds : accounts[a].present => accounts'[a].present
        /\ \A i \in DOMAIN alerts :
              /\ i \in DOMAIN alerts'
              /\ alerts'[i].account_id = alerts[i].account_id
              /\ alerts'[i].account_id # NoAccountId
                   => accounts'[alerts'[i].account_id].present
        /\ \A i \in DOMAIN execs' : execs'[i].alert \in DOMAIN alerts' ]_vars
\* the orders a request has had submitted
OrdersIn(log, id) == {k \in DOMAIN log : log[k].req = id /\ log[k].op = "order_send"}
AdapterCallsIn(log, id) ==
    {k \in DOMAIN log : log[k].req = id /\ log[k].op \in {"execute_trade", "close_position"}}
\* the action a request in progress asks for
AskedAction(req) ==
    IF req.path = "single" THEN req.parsed.action
    ELSE IF Has(req.data, "action") THEN Upper(req.data.action) ELSE ""

\* C19: a request in progress has called execute_trade and close_position at
\* most once each and has had at most one order submitted, or for a CLOSE at
\* most one per position found; once the adapter has answered, no later step
\* of the request calls it again (commits may raise).
NoResubmission ==
    [][ \A s \in Slots :
          /\ InFlight(reqs'[s])
               => /\ Cardinality(AdapterCallsIn(calls', reqs'[s].id)) <= 1
                  /\ IF AskedAction(reqs'[s]) = "CLOSE"
                     THEN Cardinality(OrdersIn(calls', reqs'[s].id))
                            <= IF reqs'[s].found = NoneNum THEN 0 ELSE reqs'[s].found
                     ELSE Cardinality(OrdersIn(calls', reqs'[s].id)) <= 1
          /\ ( /\ reqs'[s] # reqs[s]
                /\ reqs[s].pc \in {"s_record", "s_update", "m_count", "m_update"} )
               => calls' = calls ]_vars

\* C19 witness: the terminal refused an order and the request went on to its
\* records with that one order
NoResubmissionWitness ==
    \E s \in Slots :
        /\ reqs[s].pc \in {"s_update", "m_update"}
        /\ reqs[s].message = Text("Trade failed")
        /\ Cardinality(OrdersIn(calls, reqs[s].id)) = 1
\* C20: on an adapter that is not connected, get_account_info returns None
\* and get_positions returns an empty list, however many such calls were
\* made before, without asking the terminal and leaving is_connected,
\* account_info, current_login and current_server as they were.
ReadsOfUnconnected ==
    [][ (Len(view') = Len(view) + 1 /\ ~handler.is_connected)
          => LET r == view'[Len(view')] IN
             /\ handler' = handler
             /\ ~r.asked
             /\ calls' = calls
             /\ r.op \in {"get_account_info", "get_positions"}
             /\ r.op = "get_account_info" => r.info = NoInfo
             /\ r.op = "get_positions" => r.positions = <<>> ]_vars

\* C20 witness: an adapter that was connected and disconnected (its
\* account_info is still set) has answered both calls, one of them twice
ReadsOfUnconnectedWitness ==
    /\ ~handler.is_connected /\ handler.account_info # ""
    /\ Len(view) = 3
    /\ view[1].op = "get_account_info" /\ view[2].op = "get_account_info"
    /\ view[3].op = "get_positions"
    /\ \A i \in DOMAIN view : ~view[i].asked
\* C21: in the enhanced evaluator a CLOSE is always allowed: whatever the
\* symbol, the volume and the day's volume, check_risk_limits answers True
\* for action CLOSE.
NlbCloseAlwaysAllowed ==
    ( /\ probe.op = "check_risk_limits"
      /\ Upper(Get(probe.trade_data, "action", "")) = "CLOSE" )
        => probe.result.ok
\* C22: every account id in active_connections belongs to an existing,
\* active Account: whatever way an account is deleted, its cached adapter is
\* removed with it.
CachedAdaptersHaveAccounts ==
    \A a \in AccountIds :
        conns[a].present => (accounts[a].present /\ accounts[a].is_active)
\* the requests in flight that have connected an adapter of account a
Connectors(a) ==
    {s \in Slots : /\ InFlight(reqs[s]) /\ reqs[s].acct = a
                   /\ \E k \in DOMAIN calls : calls[k] = ConnectCall(reqs[s].id)}

\* C23: access to the adapter cache is not serialised. A webhook that found no
\* adapter cached for its account creates and connects one of its own,
\* whatever the cache holds by then, and stores it over the entry another
\* webhook may have stored in between; so two webhooks for one account that
\* both found the cache empty both connect.
CachePopulateUnguarded ==
    [][ \A s \in Slots :
          StepAt(s, "m_connect")
            => /\ calls' = Append(calls, ConnectCall(reqs[s].id))
               /\ reqs'[s].pc = "m_trade"
                    => /\ conns'[reqs[s].acct].present
                       /\ conns'[reqs[s].acct].is_connected
               /\ reqs'[s].pc # "m_trade" => conns' = conns ]_vars

\* C23 witness: two webhooks of one account are in flight and each has
\* connected an adapter, the second while the first's was already cached
DoubleConnectWitness ==
    \E a \in AccountIds :
        /\ Cardinality(Connectors(a)) = 2
        /\ \A s \in Connectors(a) : reqs[s].pc = "m_trade"
        /\ conns[a].is_connected
\* the requests in flight that have traded for account a and updated its
\* statistics
Counted(a) ==
    {s \in Slots : /\ reqs[s].pc = "m_update" /\ reqs[s].acct = a
                   /\ \E k \in DOMAIN calls : calls[k] = TradeCall(reqs[s].id)}

\* C24: counter updates are not serialised. The statistics update of a webhook
\* writes the counters it read before its trade, plus one, whatever the
\* account's row holds by then (so an update made in between by another
\* webhook of the account is lost); it writes the row of its own account
\* only, and nothing else changes a counter.
CounterUpdateUnguarded ==
    [][ /\ \A s \in Slots :
              StepAt(s, "m_count")
                => LET a == reqs[s].acct
                       snap == reqs[s].snap
                   IN  /\ accounts'[a].total_trades = snap.total_trades + 1
                       /\ IF reqs[s].success
                          THEN /\ accounts'[a].successful_trades = snap.successful_trades + 1
                               /\ accounts'[a].failed_trades = accounts[a].failed_trades
                          ELSE /\ accounts'[a].failed_trades = snap.failed_trades + 1
                               /\ accounts'[a].successful_trades
                                    = accounts[a].successful_trades
                       /\ \A b \in AccountIds \ {a} : accounts'[b] = accounts[b]
        /\ \A a \in AccountIds :
              Counters(accounts'[a]) # Counters(accounts[a])
                => \E s \in Slots : StepAt(s, "m_count") /\ reqs[s].acct = a ]_vars

\* C24 witness: two webhooks of one account have both traded and both updated
\* the statistics, and total_trades has grown from 0 to 1
LostUpdateWitness ==
    \E a \in AccountIds :
        /\ Cardinality(Counted(a)) = 2
        /\ nreq = 2
        /\ accounts[a].total_trades = 1
\* the connect calls request id has made
ConnectsIn(log, id) == {k \in DOMAIN log : log[k] = ConnectCall(id)}
\* request s has come to the execution step of process_webhook
AtExecution(s) ==
    /\ StepAt(s, "s_gate")
    /\ TradeDecision(config, symcfg[reqs[s].parsed.symbol], reqs[s].parsed,
                     DailyTrades(execs)).go # "fail"

\* C25: a BUY, SELL or CLOSE that comes to the execution step of
\* process_webhook with the adapter not connected calls _connect_mt5 exactly
\* once; if the adapter is still not connected the trade fails with 'MT5 not
\* connected', no order is sent and no further attempt is made, otherwise the
\* trade proceeds. With the adapter connected no reconnect is attempted.
OneLazyReconnect ==
    [][ \A s \in Slots :
          LET id == reqs[s].id IN
          /\ (AtExecution(s) /\ ~handler.is_connected)
                => /\ reqs'[s].attempts = 1
                   /\ Cardinality(ConnectsIn(calls', id)) <= 1
                   /\ OrdersIn(calls', id) = {}
                   /\ IF handler'.is_connected
                      THEN reqs'[s].pc = "s_trade"
                      ELSE /\ reqs'[s].pc = "s_update" /\ ~reqs'[s].success
                           /\ reqs'[s].message = Text("MT5 not connected")
          /\ (AtExecution(s) /\ handler.is_connected)
                => /\ reqs'[s].attempts = 0
                   /\ calls' = calls /\ handler' = handler
                   /\ reqs'[s].pc = "s_trade"
          /\ (InFlight(reqs[s]) /\ reqs[s].path = "single" /\ ~StepAt(s, "s_gate"))
                => /\ ConnectsIn(calls', id) = ConnectsIn(calls, id)
                   /\ InFlight(reqs'[s]) => reqs'[s].attempts = reqs[s].attempts
                   /\ reqs[s].message = Text("MT5 not connected")
                        => /\ OrdersIn(calls', id) = {}
                           /\ reqs'[s].message = Text("MT5 not connected")
                           /\ ~reqs'[s].success ]_vars

\* C25 witness: a trade has failed with 'MT5 not connected' after its one
\* reconnect attempt, whose connect the terminal refused
OneLazyReconnectWitness ==
    \E s \in Slots :
        /\ reqs[s].pc = "s_update" /\ reqs[s].attempts = 1
        /\ reqs[s].message = Text("MT5 not connected")
        /\ Cardinality(ConnectsIn(calls, reqs[s].id)) = 1
        /\ ~handler.is_connected
Distance(x, y) == IF x >= y THEN x - y ELSE y - x

\* C26: the volume of the order execute_trade submits lies in [volume_min,
\* volume_max] and is a multiple of volume_step: a request below volume_min
\* gives volume_min, one above volume_max gives volume_max, and one in
\* between the nearest multiple of the step.
OrderVolumeClamped ==
    probe.op = "execute_trade"
      => /\ Len(probe.out.orders) = 1
         /\ LET v == probe.out.orders[1].volume IN
            /\ VolumeMin <= v /\ v <= VolumeMax
            /\ v % VolumeStep = 0
            /\ probe.volume < VolumeMin => v = VolumeMin
            /\ probe.volume > VolumeMax => v = VolumeMax
            /\ (VolumeMin <= probe.volume /\ probe.volume <= VolumeMax)
                  => 2 * Distance(v, probe.volume) <= VolumeStep

\* C26 witness: 0.005 lots were requested and the order carries 0.01 lots
OrderVolumeClampedWitness ==
    /\ probe.op = "execute_trade"
    /\ probe.volume = 5
    /\ probe.out.orders[1].volume = 10
\* the per-position error messages of positions 1 .. k, joined
RECURSIVE AllCloseErrors(_)
AllCloseErrors(k) ==
    IF k = 1 THEN CloseError(1) ELSE AllCloseErrors(k - 1) \o "; " \o CloseError(k)

\* C27: close_position over a symbol with k >= 1 open positions sends one
\* opposing order per position, for the requested volume or else the
\* position's volume; it returns success exactly when the broker accepts at
\* least one of them, and otherwise the failure whose message joins the k
\* per-position error messages.
CloseEveryPosition ==
    (probe.op = "close_position" /\ Len(probe.positions) >= 1)
      => LET k == Len(probe.positions)
             out == probe.out
         IN  /\ Len(out.orders) = k
             /\ \A i \in 1 .. k :
                   /\ out.orders[i].op = "order_send"
                   /\ probe.positions[i] = "BUY" => out.orders[i].type = "SELL"
                   /\ probe.positions[i] = "SELL" => out.orders[i].type = "BUY"
                   /\ out.orders[i].volume = IF probe.volume = NoneNum THEN PositionVolume
                                              ELSE probe.volume
             /\ out.success <=> \E i \in 1 .. k : probe.accepted[i]
             /\ ~out.success => out.message = Text(AllCloseErrors(k))

\* C27 witness: of three positions the broker closes the second only, and the
\* call succeeds
CloseEveryPositionWitness ==
    /\ probe.op = "close_position"
    /\ probe.positions = <<"BUY", "SELL", "BUY">>
    /\ probe.accepted = <<FALSE, TRUE, FALSE>>
    /\ probe.out.success /\ Len(probe.out.orders) = 3
\* C28: on the single-account path the volume stored in the Execution row of
\* a BUY or SELL is the volume of the order that was submitted for the
\* webhook.
RecordedVolumeIsSent ==
    [][ \A s \in Slots :
          ( /\ StepAt(s, "s_record")
            /\ reqs[s].parsed.action \in {"BUY", "SELL"}
            /\ Len(execs') = Len(execs) + 1 )
            => \A k \in OrdersIn(calls, reqs[s].id) :
                  execs'[Len(execs')].volume = calls[k].volume ]_vars
\* a stored configuration whose login connect cannot use: it returns False
UnusableLogin(cfg) ==
    /\ cfg.present /\ cfg.is_active
    /\ cfg.creds.login # "" /\ cfg.creds.password # ""
    /\ ~IsNumeric(cfg.creds.login)

\* C29: after a connect that returned False the adapter is not connected,
\* also when it was connected before; so once the settings hold a login that
\* cannot connect (the reconnect of update_trading_settings has failed), no
\* webhook has an order sent over the session opened before.
NoOrderOverStaleSession ==
    [][ \A s \in Slots :
          (UnusableLogin(config) /\ StepAt(s, "s_trade"))
            => OrdersIn(calls', reqs[s].id) = {} ]_vars
\* C30: while the trading configuration is missing or not active,
\* process_webhook has no order sent to the broker, whatever the action and
\* whether or not the adapter is connected from an earlier request.
InactiveConfigSendsNothing ==
    (~config.present \/ ~config.is_active)
      => \A s \in Slots :
            (InFlight(reqs[s]) /\ reqs[s].path = "single")
              => OrdersIn(calls, reqs[s].id) = {}
====
